---- MODULE Spec2Model ----
(***************************************************************************)
(* Model of src/app.py: a Flask application over two SQLite tables         *)
(* (communities, water_usage) with two write routes (/add_community,       *)
(* /add_usage) and two read routes (/, /update_data) that recompute the    *)
(* allocation table (get_data followed by optimize_allocation).            *)
(*                                                                         *)
(* Numbers that are floats in the program are modelled as exact rationals  *)
(* [n |-> numerator, d |-> denominator > 0] in lowest terms; the factor    *)
(* 1.1 is 11/10 and 0.5 is 1/2.  The Rainfall and Temperature columns of   *)
(* get_data are drawn at random and read by no computation; they are left  *)
(* out of the rows.                                                        *)
(***************************************************************************)
EXTENDS Integers, Sequences, FiniteSets, TLC

VARIABLES communities, water_usage, request, response, solve_status, just_added

vars == <<communities, water_usage, request, response, solve_status, just_added>>

(***************************************************************************)
(* Bounds of the model and the inputs the requests are drawn from.         *)
(***************************************************************************)
MaxUsage == 2

Names == {"A", "B"}

Populations == {-1, 10}

Usages == {-5, 5, 20}

Dates == {"d1"}

CommunityIds == 1..Cardinality(Names)

(***************************************************************************)
(* Exact rational arithmetic.                                              *)
(***************************************************************************)
Abs(x) == IF x < 0 THEN -x ELSE x

RECURSIVE GCD(_, _)
GCD(a, b) == IF b = 0 THEN a ELSE GCD(b, a % b)

Rat(num, den) ==
    LET g == GCD(Abs(num), den)
    IN  [n |-> num \div g, d |-> den \div g]

RatOfInt(i) == [n |-> i, d |-> 1]

Zero == RatOfInt(0)

RatAdd(x, y) == Rat(x.n * y.d + y.n * x.d, x.d * y.d)

RatSub(x, y) == Rat(x.n * y.d - y.n * x.d, x.d * y.d)

RatMul(x, y) == Rat(x.n * y.n, x.d * y.d)

RatDivInt(x, k) == Rat(x.n, x.d * k)

RatLess(x, y) == x.n * y.d < y.n * x.d

RatLeq(x, y) == x.n * y.d <= y.n * x.d

RatMax(x, y) == IF RatLess(x, y) THEN y ELSE x

(***************************************************************************)
(* Program constants.                                                      *)
(***************************************************************************)
SupplyFactor == Rat(11, 10)

PaymentRate == Rat(1, 2)

PaymentScale == 1000

(***************************************************************************)
(* Form fields of a request.  A field is missing, or holds a text; a text  *)
(* that is the decimal notation of an integer is kind "int" and i is the   *)
(* integer it denotes.                                                     *)
(***************************************************************************)
Missing == [kind |-> "missing", s |-> "", i |-> 0]

Text(str) == [kind |-> "text", s |-> str, i |-> 0]

IntText(k) == [kind |-> "int", s |-> "", i |-> k]

NoForm ==
    [name |-> Missing, population |-> Missing, community_id |-> Missing,
     date |-> Missing, usage |-> Missing]

\* request.form[key]: a missing key raises BadRequestKeyError, which Flask
\* answers with 400.
HasKey(v) == v.kind # "missing"

\* int(text): raises ValueError unless the text denotes an integer; Flask
\* answers an unhandled exception with 500.
IsInt(v) == v.kind = "int"

int(v) == v.i

NoRequest == [route |-> "", form |-> NoForm]

NoResponse == [status |-> 0, rows |-> <<>>]

ReadRoutes == {"/", "/update_data"}

WriteRoutes == {"/add_community", "/add_usage"}

(***************************************************************************)
(* The store: the two tables of init_db.                                   *)
(***************************************************************************)
\* INTEGER PRIMARY KEY AUTOINCREMENT; no row is ever deleted.
NextRowId(table) == IF table = <<>> THEN 1 ELSE table[Len(table)].id + 1

NameExists(coms, nm) == \E i \in 1..Len(coms) : coms[i].name = nm

IdExists(coms, cid) == \E i \in 1..Len(coms) : coms[i].id = cid

\* INSERT OR REPLACE: the row holding the name is deleted, a new one inserted.
InsertOrReplace(coms, nm, pop) ==
    LET kept == SelectSeq(coms, LAMBDA c : c.name # nm)
    IN  Append(kept, [id |-> NextRowId(coms), name |-> nm, population |-> pop])

\* INSERT OR IGNORE INTO communities (name, population): name is UNIQUE.
InsertOrIgnore(coms, nm, pop) ==
    IF NameExists(coms, nm)
    THEN coms
    ELSE Append(coms, [id |-> NextRowId(coms), name |-> nm, population |-> pop])

\* INSERT INTO water_usage (community_id, date, usage).  The connection never
\* issues PRAGMA foreign_keys = ON, so SQLite does not check the declared
\* FOREIGN KEY and the row is stored whatever community_id is.
InsertUsage(usg, cid, dt, u) ==
    Append(usg, [id |-> NextRowId(usg), community_id |-> cid, date |-> dt, usage |-> u])

(***************************************************************************)
(* get_data: the aggregate query and the Current_Supply column.            *)
(***************************************************************************)
RECURSIVE SumUsage(_)
SumUsage(recs) ==
    IF recs = <<>> THEN 0 ELSE recs[1].usage + SumUsage(Tail(recs))

\* w rows joined to a community: com.id = w.community_id
JoinedUsage(usg, cid) == SelectSeq(usg, LAMBDA w : w.community_id = cid)

\* IFNULL(AVG(w.usage), 0): AVG over no joined row is NULL.
AvgUsage(recs) ==
    IF recs = <<>> THEN Zero ELSE Rat(SumUsage(recs), Len(recs))

AggregateRow(c, usg) ==
    LET avg == AvgUsage(JoinedUsage(usg, c.id))
    IN  [community_id |-> c.id, Community |-> c.name, Population |-> c.population,
         Avg_Usage |-> avg,
         Current_Supply |-> RatMul(RatMul(avg, RatOfInt(c.population)), SupplyFactor)]

\* An inner join drops the communities that have no usage row.
get_data_inner_join(coms, usg) ==
    LET with == SelectSeq(coms, LAMBDA c : JoinedUsage(usg, c.id) # <<>>)
    IN  [i \in 1..Len(with) |-> AggregateRow(with[i], usg)]

\* The aggregates as they were before the newest usage row was stored.
get_data_stale(coms, usg) ==
    LET old == IF usg = <<>> THEN usg ELSE SubSeq(usg, 1, Len(usg) - 1)
    IN  [i \in 1..Len(coms) |-> AggregateRow(coms[i], old)]

\* FROM communities com LEFT JOIN water_usage w ... GROUP BY com.id
get_data(coms, usg) ==
    [i \in 1..Len(coms) |-> AggregateRow(coms[i], usg)]

(***************************************************************************)
(* optimize_allocation.                                                    *)
(***************************************************************************)
Extend(row, more) ==
    [k \in (DOMAIN row) \cup (DOMAIN more) |->
        IF k \in DOMAIN more THEN more[k] ELSE row[k]]

RECURSIVE SumAvg(_)
SumAvg(df) ==
    IF df = <<>> THEN Zero ELSE RatAdd(df[1].Avg_Usage, SumAvg(Tail(df)))

\* len(df) == 0 or df['Avg_Usage'].sum() == 0
EmptyDataGuard(df) == Len(df) = 0 \/ SumAvg(df) = Zero

GuardRow(row) ==
    Extend(row, [Predicted_Demand |-> Zero, Shortage |-> FALSE,
                 Optimized_Share |-> Zero, Final_Supply |-> row.Current_Supply,
                 Payment |-> Zero])

PredictedDemand(row) == RatMul(RatOfInt(row.Population), row.Avg_Usage)

ShortageOrEqual(supply, demand) == RatLeq(supply, demand)

\* df['Current_Supply'] < df['Predicted_Demand']
Shortage(supply, demand) == RatLess(supply, demand)

PredictRow(row) ==
    LET demand == PredictedDemand(row)
    IN  Extend(row, [Predicted_Demand |-> demand,
                     Shortage |-> Shortage(row.Current_Supply, demand)])

surplus_ignores_demand(row) == RatMax(Zero, row.Current_Supply)

\* max(0, row['Current_Supply'] - row['Predicted_Demand'])
surplus(row) == RatMax(Zero, RatSub(row.Current_Supply, row.Predicted_Demand))

\* The values a variable of the linear program is tried at: zero, and every
\* row's supply (which may be negative, or exceed the surplus) and surplus.
Candidates(df) ==
    {Zero} \cup UNION {{df[i].Current_Supply, surplus(df[i])} : i \in 1..Len(df)}

\* give = {c: LpVariable(f'give_{c}', lowBound=0) for c in df['Community']};
\* prob += give[row['Community']] <= surplus
Feasible(df, give) ==
    \A i \in 1..Len(df) :
        /\ RatLeq(Zero, give[df[i].Community])
        /\ RatLeq(give[df[i].Community], surplus(df[i]))

RECURSIVE Objective(_, _)
\* lpSum([give[c] for c in df['Community']])
Objective(df, give) ==
    IF df = <<>> THEN Zero
    ELSE RatAdd(give[df[1].Community], Objective(Tail(df), give))

LpMinimize(x, y) == RatLeq(x, y)

\* LpProblem("Water_Sharing", LpMaximize): x is at least as good as y
LpMaximize(x, y) == RatLeq(y, x)

\* prob.solve(): an optimal assignment of the variables
solve(df) ==
    LET keys == {df[i].Community : i \in 1..Len(df)}
        assignments == {g \in [keys -> Candidates(df)] : Feasible(df, g)}
        values == {Objective(df, g) : g \in assignments}
        best == CHOOSE v \in values : \A w \in values : LpMaximize(v, w)
    IN  CHOOSE g \in assignments : Objective(df, g) = best

\* give[c].varValue if give[c].varValue else 0
varValueOrZero(v) == IF v # Zero THEN v ELSE Zero

AllocateRow(row, give) ==
    LET share == varValueOrZero(give[row.Community])
        final == RatSub(row.Current_Supply, share)
    IN  Extend(row, [Optimized_Share |-> share, Final_Supply |-> final,
                     Payment |-> RatDivInt(RatMul(final, PaymentRate), PaymentScale)])

optimize_allocation(df) ==
    IF EmptyDataGuard(df)
    THEN [i \in 1..Len(df) |-> GuardRow(df[i])]
    ELSE LET predicted == [i \in 1..Len(df) |-> PredictRow(df[i])]
             give == solve(predicted)
         IN  [i \in 1..Len(df) |-> AllocateRow(predicted[i], give)]

(***************************************************************************)
(* Routes.                                                                 *)
(***************************************************************************)
\* The status of POST /add_community before the store is touched: the form
\* is read field by field (lines 96-97), then the insert runs (302).
add_community_status(form) ==
    IF ~HasKey(form.name) THEN 400
    ELSE IF ~HasKey(form.population) THEN 400
    ELSE IF ~IsInt(form.population) THEN 500
    ELSE 302

\* The status of POST /add_usage (lines 107-109), likewise.
add_usage_status(form) ==
    IF ~HasKey(form.community_id) THEN 400
    ELSE IF ~IsInt(form.community_id) THEN 500
    ELSE IF ~HasKey(form.date) THEN 400
    ELSE IF ~HasKey(form.usage) THEN 400
    ELSE IF ~IsInt(form.usage) THEN 500
    ELSE 302

\* The forms a client posts: every well-formed form, and one well-formed form
\* with each field in turn made missing or, where the handler converts it
\* with int(), not an integer.
Malformed(v) == v.kind = "missing" \/ v = Text("abc")

MalformedValues(field) ==
    IF field \in {"name", "date"} THEN {Missing} ELSE {Missing, Text("abc")}

WellFormedCommunityForms ==
    {[NoForm EXCEPT !.name = Text(nm), !.population = IntText(pop)] :
        nm \in Names, pop \in Populations}

WellFormedUsageForms ==
    {[NoForm EXCEPT !.community_id = IntText(cid), !.date = Text(dt),
                    !.usage = IntText(u)] :
        cid \in CommunityIds, dt \in Dates, u \in Usages}

AddCommunityForms ==
    LET sample == [NoForm EXCEPT !.name = Text("A"), !.population = IntText(10)]
    IN  WellFormedCommunityForms \cup
        UNION {{[sample EXCEPT ![field] = v] : v \in MalformedValues(field)} :
                  field \in {"name", "population"}}

AddUsageForms ==
    LET sample == [NoForm EXCEPT !.community_id = IntText(1), !.date = Text("d1"),
                                 !.usage = IntText(5)]
    IN  WellFormedUsageForms \cup
        UNION {{[sample EXCEPT ![field] = v] : v \in MalformedValues(field)} :
                  field \in {"community_id", "date", "usage"}}

Init ==
    /\ communities = <<>>
    /\ water_usage = <<>>
    /\ request = NoRequest
    /\ response = NoResponse
    /\ solve_status = "not_run"
    /\ just_added = 0

add_community ==
    \E form \in AddCommunityForms :
        LET status == add_community_status(form)
        IN  /\ request' = [route |-> "/add_community", form |-> form]
            /\ response' = [status |-> status, rows |-> <<>>]
            /\ communities' =
                   IF status = 302
                   THEN InsertOrIgnore(communities, form.name.s, int(form.population))
                   ELSE communities
            /\ solve_status' = "not_run"
            /\ just_added' = 0
            /\ UNCHANGED water_usage

add_usage ==
    \E form \in AddUsageForms :
        LET status == add_usage_status(form)
        IN  /\ status = 302 => Len(water_usage) < MaxUsage
            /\ request' = [route |-> "/add_usage", form |-> form]
            /\ response' = [status |-> status, rows |-> <<>>]
            /\ water_usage' =
                   IF status = 302
                   THEN InsertUsage(water_usage, int(form.community_id),
                                    form.date.s, int(form.usage))
                   ELSE water_usage
            /\ solve_status' = "not_run"
            /\ just_added' = 0
            /\ UNCHANGED communities

\* History for a read: the community_id of the usage row that the request
\* served immediately before the read stored, 0 when that request stored none.
JustAdded ==
    IF request.route = "/add_usage" /\ response.status = 302
    THEN int(request.form.community_id)
    ELSE 0

\* df = get_data(); df = optimize_allocation(df); render or jsonify
Read(route) ==
    LET df == get_data(communities, water_usage)
    IN  /\ request' = [route |-> route, form |-> NoForm]
        /\ response' = [status |-> 200, rows |-> optimize_allocation(df)]
        /\ solve_status' = IF EmptyDataGuard(df) THEN "not_run" ELSE "Optimal"
        /\ just_added' = JustAdded
        /\ UNCHANGED <<communities, water_usage>>

\* prob.solve() raises (PulpSolverError): nothing in optimize_allocation or in
\* the route catches it, so the request ends 500.
ReadSolverError(route) ==
    LET df == get_data(communities, water_usage)
    IN  /\ ~EmptyDataGuard(df)
        /\ request' = [route |-> route, form |-> NoForm]
        /\ response' = [status |-> 500, rows |-> <<>>]
        /\ solve_status' = "raised"
        /\ just_added' = JustAdded
        /\ UNCHANGED <<communities, water_usage>>

index == Read("/")

update_data == Read("/update_data")

index_solver_error == ReadSolverError("/")

update_data_solver_error == ReadSolverError("/update_data")

Next == add_community \/ add_usage \/ index \/ update_data

Spec == Init /\ [][Next]_vars

\* The same program with a linear-programming solver that may fail.
NextFault == Next \/ index_solver_error \/ update_data_solver_error

SpecFault == Init /\ [][NextFault]_vars

(***************************************************************************)
(* Properties.  The quantities they compare the rows with are computed     *)
(* here from the tables, apart from the operators of the model.            *)
(***************************************************************************)
ReadCompleted == request.route \in ReadRoutes /\ response.status = 200

Rows == response.rows

UsageIndexes(cid) ==
    {k \in 1..Len(water_usage) : water_usage[k].community_id = cid}

RECURSIVE TotalOver(_)
TotalOver(ks) ==
    IF ks = {} THEN 0
    ELSE LET k == CHOOSE x \in ks : TRUE
         IN  water_usage[k].usage + TotalOver(ks \ {k})

TotalUsage(cid) == TotalOver(UsageIndexes(cid))

RowSurplus(row) ==
    RatMax(Zero, RatSub(row.Current_Supply, row.Predicted_Demand))

ValidCommunityForm(form) == HasKey(form.name) /\ IsInt(form.population)

MalformedRequest(req) ==
    /\ req.route \in WriteRoutes
    /\ \/ /\ req.route = "/add_community"
          /\ (Malformed(req.form.name) \/ Malformed(req.form.population))
       \/ /\ req.route = "/add_usage"
          /\ \/ Malformed(req.form.community_id)
             \/ Malformed(req.form.date)
             \/ Malformed(req.form.usage)

\* C1: add_community with a name that a stored community already has raises
\* no error (the request ends in its redirect) and leaves the communities
\* table, hence their number and the stored id and population, as it was,
\* whatever population the request carries.
C1_AddCommunityIdempotent ==
    [][(/\ request'.route = "/add_community"
        /\ ValidCommunityForm(request'.form)
        /\ NameExists(communities, request'.form.name.s))
       => (/\ response'.status = 302
           /\ communities' = communities
           /\ water_usage' = water_usage)]_vars

\* A duplicate add_community was served whose population differs from the
\* stored one.
C1_Witness ==
    /\ request.route = "/add_community"
    /\ response.status = 302
    /\ \E i \in 1..Len(communities) :
           /\ communities[i].name = request.form.name.s
           /\ communities[i].population # int(request.form.population)

\* C2: every row of a completed read has
\* 0 <= Optimized_Share <= max(0, Current_Supply - Predicted_Demand).
C2_ShareWithinSurplus ==
    ReadCompleted =>
        \A i \in 1..Len(Rows) :
            /\ RatLeq(Zero, Rows[i].Optimized_Share)
            /\ RatLeq(Rows[i].Optimized_Share, RowSurplus(Rows[i]))

\* The linear program ran; one row gives a positive share below its supply,
\* another has supply below demand and gives nothing.
C2_Witness ==
    /\ ReadCompleted
    /\ solve_status = "Optimal"
    /\ \E i \in 1..Len(Rows) :
           /\ RatLess(Zero, Rows[i].Optimized_Share)
           /\ RatLess(Rows[i].Optimized_Share, Rows[i].Current_Supply)
    /\ \E j \in 1..Len(Rows) :
           /\ RatLess(Rows[j].Current_Supply, Rows[j].Predicted_Demand)
           /\ Rows[j].Optimized_Share = Zero

\* C3: every row of a completed read, the rows of the empty-data guard
\* included, has Final_Supply = Current_Supply - Optimized_Share and
\* Payment = Final_Supply * 0.5 / 1000.
C3_DerivedFields ==
    ReadCompleted =>
        \A i \in 1..Len(Rows) :
            /\ Rows[i].Final_Supply =
                   RatSub(Rows[i].Current_Supply, Rows[i].Optimized_Share)
            /\ Rows[i].Payment =
                   RatDivInt(RatMul(Rows[i].Final_Supply, Rat(1, 2)), 1000)

\* C4: the read served immediately after add_usage stored a record for an
\* existing community reports, for that community, an Avg_Usage that is the
\* mean of all its stored usage records, the new one included.
C4_NoStaleness ==
    (ReadCompleted /\ just_added # 0 /\ IdExists(communities, just_added)) =>
        /\ \E i \in 1..Len(Rows) : Rows[i].community_id = just_added
        /\ \A i \in 1..Len(Rows) :
               Rows[i].community_id = just_added =>
                   RatMul(Rows[i].Avg_Usage,
                          RatOfInt(Cardinality(UsageIndexes(just_added))))
                       = RatOfInt(TotalUsage(just_added))

\* A read right after add_usage for a community that now has two records
\* whose mean is not an integer.
C4_Witness ==
    /\ ReadCompleted
    /\ just_added # 0
    /\ Cardinality(UsageIndexes(just_added)) >= 2
    /\ \E i \in 1..Len(Rows) :
           /\ Rows[i].community_id = just_added
           /\ Rows[i].Avg_Usage.d = 2

\* C5: a completed read returns exactly one row per stored community and no
\* other row, and a community without usage records has Avg_Usage = 0 and
\* Current_Supply = 0.
C5_OneRowPerCommunity ==
    ReadCompleted =>
        /\ \A c \in 1..Len(communities) :
               Cardinality({i \in 1..Len(Rows) :
                               Rows[i].community_id = communities[c].id}) = 1
        /\ \A i \in 1..Len(Rows) :
               /\ \E c \in 1..Len(communities) :
                      /\ Rows[i].community_id = communities[c].id
                      /\ Rows[i].Community = communities[c].name
                      /\ Rows[i].Population = communities[c].population
               /\ UsageIndexes(Rows[i].community_id) = {} =>
                      /\ Rows[i].Avg_Usage = Zero
                      /\ Rows[i].Current_Supply = Zero

\* Two communities, one with usage records and one without, both reported.
C5_Witness ==
    /\ ReadCompleted
    /\ Len(communities) = 2
    /\ Len(Rows) = 2
    /\ \E i, j \in 1..2 :
           /\ UsageIndexes(Rows[i].community_id) = {}
           /\ Rows[i].Avg_Usage = Zero
           /\ UsageIndexes(Rows[j].community_id) # {}
           /\ Rows[j].Avg_Usage # Zero

RECURSIVE SumShares(_)
SumShares(rows) ==
    IF rows = <<>> THEN Zero
    ELSE RatAdd(rows[1].Optimized_Share, SumShares(Tail(rows)))

RECURSIVE SumSurplus(_)
SumSurplus(rows) ==
    IF rows = <<>> THEN Zero
    ELSE RatAdd(RowSurplus(rows[1]), SumSurplus(Tail(rows)))

\* C6: when the empty-data guard is not taken, every row's Optimized_Share
\* is its whole surplus max(0, Current_Supply - Predicted_Demand): the shares
\* sum to the sum of the surpluses, and Final_Supply = Predicted_Demand in
\* every row with a positive surplus.
C6_SharesAreSurplus ==
    (ReadCompleted /\ solve_status = "Optimal") =>
        /\ \A i \in 1..Len(Rows) :
               /\ Rows[i].Optimized_Share = RowSurplus(Rows[i])
               /\ RatLess(Zero, RowSurplus(Rows[i])) =>
                      Rows[i].Final_Supply = Rows[i].Predicted_Demand
        /\ SumShares(Rows) = SumSurplus(Rows)

\* The scenario of surpluses 5 and 20: shares 5 and 20, total 25, final
\* supplies 50 and 200.
C6_Witness ==
    /\ ReadCompleted
    /\ solve_status = "Optimal"
    /\ Len(Rows) = 2
    /\ \E i, j \in 1..2 :
           /\ Rows[i].Optimized_Share = RatOfInt(5)
           /\ Rows[i].Final_Supply = RatOfInt(50)
           /\ Rows[j].Optimized_Share = RatOfInt(20)
           /\ Rows[j].Final_Supply = RatOfInt(200)
    /\ SumShares(Rows) = RatOfInt(25)

\* C7: when the solve step fails, the read still completes, with one row per
\* community and Optimized_Share = 0 in each.
C7_SolverFailureDegrades ==
    solve_status = "raised" =>
        /\ response.status = 200
        /\ Len(Rows) = Len(communities)
        /\ \A i \in 1..Len(Rows) : Rows[i].Optimized_Share = Zero

\* C8: every usage record's community_id is the id of a stored community.
C8_UsageRefersToCommunity ==
    \A k \in 1..Len(water_usage) :
        IdExists(communities, water_usage[k].community_id)

\* C9: a POST whose form has a missing or non-integer field is rejected with
\* a client-input error (400) and leaves both tables as they were.
C9_MalformedRejected ==
    [][MalformedRequest(request')
       => (/\ response'.status = 400
           /\ communities' = communities
           /\ water_usage' = water_usage)]_vars

\* C10 as stated: no row of a completed read has Shortage = TRUE.
C10_NoShortage ==
    ReadCompleted => \A i \in 1..Len(Rows) : ~Rows[i].Shortage

\* C10 amended: a row has Shortage = TRUE only when its community's
\* population times its total usage is negative, so never when populations
\* and usages are non-negative.
C10_ShortageOnlyNegative ==
    ReadCompleted =>
        \A i \in 1..Len(Rows) :
            Rows[i].Shortage =>
                Rows[i].Population * TotalUsage(Rows[i].community_id) < 0

\* The linear program ran over non-negative data: a row with positive
\* demand, a supply above it, and no shortage; and a row with no usage.
C10_Witness ==
    /\ ReadCompleted
    /\ solve_status = "Optimal"
    /\ \A c \in 1..Len(communities) : communities[c].population >= 0
    /\ \A k \in 1..Len(water_usage) : water_usage[k].usage >= 0
    /\ \E i \in 1..Len(Rows) :
           /\ RatLess(Zero, Rows[i].Predicted_Demand)
           /\ RatLess(Rows[i].Predicted_Demand, Rows[i].Current_Supply)
           /\ ~Rows[i].Shortage
    /\ \E j \in 1..Len(Rows) :
           /\ Rows[j].Predicted_Demand = Zero
           /\ ~Rows[j].Shortage

====
